---- MODULE Spec2Model ----
(***************************************************************************)
(* Model of the structlog_config pytest plugin                             *)
(* (src/structlog_config/pytest_plugin/): the hooks pytest calls for one   *)
(* session, the stream substitution of SimpleCapture, the per-test         *)
(* artifact directory and the terminal summary; and of the process-wide    *)
(* patches of the library (src/structlog_config/): the exception hooks,    *)
(* the TRACE level, the stdlib logger table and the subprocess capture.    *)
(*                                                                         *)
(* pytest itself is the environment: it calls pytest_configure once, then  *)
(* for every collected item pytest_runtest_protocol, inside it the phases  *)
(* setup / call / teardown (call only when setup passed), after every      *)
(* phase pytest_runtest_makereport, and at the end of a session that did   *)
(* not die of an internal error pytest_terminal_summary.                   *)
(***************************************************************************)
EXTENDS Integers, Sequences, FiniteSets, TLC

\* ------------------------------------------------------------------ bounds
NumTests == 2
MaxEmits == 2
MaxCalls == 2
MaxHookCalls == 4

Tests == 1..NumTests

\* ------------------------------------------------------------- characters
\* A character of output is <<c, t, w>>: the character c, the test t that was
\* running when it was written and the place w it was written in (a phase, or
\* "report" for the reporting step that follows a phase).  t and w are
\* provenance only: no operation of the program reads them.
ESC == "ESC"
Digits == {"1"}
PhaseSet == {"setup", "call", "teardown"}

Tag(s, t, w) == [i \in 1..Len(s) |-> <<s[i], t, w>>]

\* What a test may write in one write() call.
Chunks ==
    [stdout |-> { <<"a">>, <<ESC, "[", "1", "m">>, <<ESC, "[">>, <<"m">> },
     stderr |-> { <<"a">> }]

\* Plain text only.
PlainChunks == [stdout |-> { <<"a">> }, stderr |-> { <<"a">> }]

\* --------------------------------------------------------------- _strip_ansi
\* re.compile(r"\x1b\[[0-9;]*m"): the end of the match that starts at i, or 0.
RECURSIVE ScanParams(_, _)
ScanParams(s, j) ==
    IF j > Len(s) THEN 0
    ELSE IF s[j][1] \in Digits \cup {";"} THEN ScanParams(s, j + 1)
    ELSE IF s[j][1] = "m" THEN j
    ELSE 0

MatchEnd(s, i) ==
    IF i + 1 <= Len(s) /\ s[i][1] = ESC /\ s[i + 1][1] = "["
    THEN ScanParams(s, i + 2)
    ELSE 0

\* sub("", text): leftmost matches, not overlapping, are dropped.
RECURSIVE StripFrom(_, _)
StripFrom(s, i) ==
    IF i > Len(s) THEN << >>
    ELSE IF MatchEnd(s, i) # 0 THEN StripFrom(s, MatchEnd(s, i) + 1)
    ELSE <<s[i]>> \o StripFrom(s, i + 1)

StripAnsi(text) == StripFrom(text, 1)

\* ------------------------------------------------------------------- state
VARIABLES
    pc,        \* where pytest's session is: "configure", "loop", "phase",
               \* "body", "report", "finish", "done", "internal_error"
    opt,       \* the parsed command line (config.option) and installed extras
    cur,       \* index of the item whose protocol runs or ran last (0: none yet)
    when,      \* the phase that runs or ran last
    call,      \* CallInfo of the phase that just ended: [when, excinfo]
    stash,     \* config.stash: CAPTURE_KEY dict and CAPTURED_TESTS_KEY list
    environ,   \* os.environ[SUBPROCESS_CAPTURE_ENV], or Unset
    sys,       \* the objects sys.stdout and sys.stderr name
    capture,   \* the SimpleCapture of the running phase
    item,      \* attributes the plugin sets on the pytest.Item numbered cur
    fs,        \* the output directory: one artifact directory per item
    reporter,  \* what pytest_terminal_summary wrote to the terminal reporter
    results,   \* results.json in the output directory
    exc,       \* the exception that escaped a hook of the plugin, or "none"
    emits,     \* number of writes item cur made so far (bounded by MaxEmits)
    wrote,     \* history: what item cur wrote to sys.stdout / sys.stderr in
               \* each place, in order
    failed,    \* history: the items that recorded a non-skip exception
    outcomes,  \* history: how each phase of item cur ended
    stats      \* terminalreporter.stats["passed"]: the passed reports

\* The process-wide state the library patches.
VARIABLES
    proc_environ, \* os.environ[SUBPROCESS_CAPTURE_ENV] of a spawned process
    subprocess_capture_configured,  \* _subprocess_capture_configured
    fds,          \* what file descriptors 1 and 2 of the process refer to
    subfs,        \* the directories and files the subprocess capture made
    excepthook,   \* sys.excepthook and threading.excepthook
    hookcalls,    \* history: the installations made and the uncaught
                  \* exceptions raised, with the hooks each of them ran
    loggerDict,   \* logging.Logger.manager.loggerDict
    setup_called, \* trace._setup_called
    patched,      \* the tables and classes setup_trace patches
    log,          \* the records the library's own loggers emitted, in order
    calls         \* history: how often each function of the library was
                  \* called (bounded by MaxCalls)

\* The state of an application that configures logging with the library.
VARIABLES
    requests,      \* the requests a FastAPI application received, each with
                   \* the point its access_log_middleware call has reached
    access_log,    \* the events of the logger "access_log", in order
    root_handlers, \* logging.root.handlers: the stream of every StreamHandler
    logger_levels, \* the level set on the root logger and on named loggers
    log_environ    \* the LOG_* variables of os.environ

appVars == <<requests, access_log, root_handlers, logger_levels, log_environ>>

libVars == <<proc_environ, subprocess_capture_configured, fds, subfs, excepthook, hookcalls,
             loggerDict, setup_called, patched, log, calls>>

pluginVars == <<pc, opt, cur, when, call, stash, environ, sys, capture, item,
                fs, reporter, results, exc, emits, wrote, failed, outcomes,
                stats>>

vars == <<pc, opt, cur, when, call, stash, environ, sys, capture, item, fs,
          reporter, results, exc, emits, wrote, failed, outcomes, stats,
          proc_environ, subprocess_capture_configured, fds, subfs, excepthook, hookcalls,
          loggerDict, setup_called, patched, log, calls,
          requests, access_log, root_handlers, logger_levels, log_environ>>

Unset == << >>
NoResults == [exists |-> FALSE, entries |-> << >>]
NoneVal == "None"

\* constants.py
PERSIST_FAILED_ONLY == TRUE
CAPTURE_ENABLED_KEY == "enabled"

\* The names of the real streams and of the two StringIO objects of a capture.
OrigStdout == "orig_stdout"
OrigStderr == "orig_stderr"
CapStdout == "capture_stdout"
CapStderr == "capture_stderr"

Places == PhaseSet \cup {"report"}

\* ---------------------------------------------------------------- the disk
EmptyFiles == [n \in {} |-> << >>]
AbsentDir == [exists |-> FALSE, files |-> EmptyFiles]
EmptyDir == [exists |-> TRUE, files |-> EmptyFiles]

\* What the same test left in its directory in an earlier run: a file, and
\* a subdirectory with a file in it.
StaleDir == [exists |-> TRUE,
             files |-> [n \in {"stdout.txt", "subdir/out.txt"} |->
                          <<<<"a", 0, "stale">>>>]]

\* Path.write_text
WriteText(dir, name, text) ==
    [dir EXCEPT !.files =
        [n \in DOMAIN dir.files \cup {name} |->
            IF n = name THEN text ELSE dir.files[n]]]

\* pytest_plugin_utils.get_artifact_dir: the item's directory under the output
\* directory, created when missing.  Items are keyed by their index.
get_artifact_dir(dir) == IF dir.exists THEN dir ELSE EmptyDir

\* Mutant: stale files are left in place.
clean_artifact_dir_keep(dir) == dir

\* Mutant: the files are unlinked, the subdirectories are left.
clean_artifact_dir_files_only(dir) ==
    IF ~dir.exists THEN dir
    ELSE [dir EXCEPT !.files =
            [n \in DOMAIN dir.files \cap {"subdir/out.txt"} |-> dir.files[n]]]

\* _clean_artifact_dir: every entry of an existing directory is removed.
clean_artifact_dir(dir) == IF ~dir.exists THEN dir ELSE EmptyDir

\* --------------------------------------------------------- pytest_configure
\* --slow-test-threshold, in seconds: its default, and the values tried.
DefaultThreshold == 1
Thresholds == {-1, 0, 1, 2}

\* How long a phase may take, in seconds.
Durations == {0, 1, 2}
FastDurations == {0}

Options ==
    [no_structlog : BOOLEAN, usepdb : BOOLEAN, trace : BOOLEAN,
     structlog_output : {NoneVal, "out"}, capture : {"no", "fd"},
     beautiful_traceback : BOOLEAN, slow_test_threshold : {DefaultThreshold}]

\* stash[SLOW_THRESHOLD_KEY]: None, or the threshold.
NoThreshold == << >>

DisabledStash ==
    [enabled |-> FALSE, output_dir |-> NoneVal,
     has_captured_tests |-> FALSE, captured_tests |-> << >>,
     slow_threshold |-> NoThreshold]

\* Mutant: the capture mode is not looked at.
validate_always(o) == TRUE

\* _validate_pytest_config: -s (--capture=no) is required.
validate_pytest_config(o) == o.capture = "no"

\* The capture part of the stash pytest_configure leaves behind.
ConfiguredStash(o) ==
    IF o.no_structlog THEN DisabledStash
    ELSE IF o.usepdb \/ o.trace THEN DisabledStash
    ELSE IF o.structlog_output = NoneVal THEN DisabledStash
    ELSE IF ~validate_pytest_config(o) THEN DisabledStash
    ELSE [enabled |-> TRUE, output_dir |-> o.structlog_output,
          has_captured_tests |-> TRUE, captured_tests |-> << >>,
          slow_threshold |-> NoThreshold]

\* Mutant: the threshold is stored only when capture is enabled.
SlowThresholdWhenCapturing(o) ==
    IF ConfiguredStash(o).enabled /\ o.slow_test_threshold > 0
    THEN <<o.slow_test_threshold>> ELSE NoThreshold

\* stash[SLOW_THRESHOLD_KEY]: None with --no-structlog, else the threshold
\* when it is positive; stored before any of the capture checks.
SlowThreshold(o) ==
    IF o.no_structlog THEN NoThreshold
    ELSE IF o.slow_test_threshold > 0 THEN <<o.slow_test_threshold>>
    ELSE NoThreshold

pytest_configure ==
    /\ pc = "configure"
    /\ stash' = [ConfiguredStash(opt) EXCEPT !.slow_threshold = SlowThreshold(opt)]
    /\ pc' = "loop"
    /\ UNCHANGED <<opt, cur, when, call, environ, sys, capture, item,
                   fs, reporter, results, exc, emits, wrote, failed, outcomes,
                   stats>>
    /\ UNCHANGED libVars
    /\ UNCHANGED appVars

\* ------------------------------------------------------------ SimpleCapture
NoCapture ==
    [active |-> FALSE, orig_stdout |-> NoneVal, orig_stderr |-> NoneVal,
     stdout_capture |-> << >>, stderr_capture |-> << >>]

\* SimpleCapture.start: remember the streams, install two fresh StringIO.
CaptureStart(s) ==
    [active |-> TRUE, orig_stdout |-> s.stdout, orig_stderr |-> s.stderr,
     stdout_capture |-> << >>, stderr_capture |-> << >>]

\* Mutant: only sys.stderr is replaced.
CapturedSysStderrOnly == [stdout |-> OrigStdout, stderr |-> CapStderr]

CapturedSys == [stdout |-> CapStdout, stderr |-> CapStderr]

\* SimpleCapture.start: a StreamHandler of the root logger that writes to
\* one of the streams being replaced is pointed at the StringIO instead.
RedirectHandlers(handlers, c) ==
    [i \in DOMAIN handlers |->
        IF handlers[i] = c.orig_stdout THEN CapStdout
        ELSE IF handlers[i] = c.orig_stderr THEN CapStderr
        ELSE handlers[i]]

\* Mutant: only the handlers on the stdout buffer are put back.
RestoreHandlersStdoutOnly(handlers, c) ==
    [i \in DOMAIN handlers |->
        IF handlers[i] = CapStdout THEN c.orig_stdout ELSE handlers[i]]

\* SimpleCapture.stop: a StreamHandler of the root logger that writes to a
\* StringIO of the capture is pointed at the stream the capture replaced.
RestoreHandlers(handlers, c) ==
    [i \in DOMAIN handlers |->
        IF handlers[i] = CapStdout THEN c.orig_stdout
        ELSE IF handlers[i] = CapStderr THEN c.orig_stderr
        ELSE handlers[i]]

\* Mutant: the StringIO objects stay installed.
RestoredSysNever(c) == CapturedSys

\* SimpleCapture.stop: the streams to put back, and the CapturedOutput.
RestoredSys(c) == [stdout |-> c.orig_stdout, stderr |-> c.orig_stderr]
CapturedOutput(c) == [stdout |-> c.stdout_capture, stderr |-> c.stderr_capture]

\* --------------------------------------------------------------- the items
NewItem ==
    [has_excinfo |-> FALSE, excinfo |-> << >>,
     has_full_captured_output |-> FALSE, stdout |-> << >>, stderr |-> << >>,
     test_duration |-> << >>]

\* Mutant: a phase's output replaces what earlier phases left.
accumulate_overwrite(it, phase_output) ==
    [it EXCEPT !.has_full_captured_output = TRUE,
               !.stdout = phase_output.stdout,
               !.stderr = phase_output.stderr]

\* _accumulate_captured_output
accumulate_captured_output(it, phase_output) ==
    [it EXCEPT !.has_full_captured_output = TRUE,
               !.stdout = @ \o phase_output.stdout,
               !.stderr = @ \o phase_output.stderr]

\* Mutant: a skip is recorded like any other exception.
RecordsAnyException(excinfo) == excinfo # "none"

\* pytest_runtest_makereport: skips are filtered out, they count as success.
RecordsException(excinfo) == excinfo # "none" /\ excinfo # "skip"

\* item._test_duration = call.duration, for the call phase only.
set_test_duration(it, c) ==
    IF c.when = "call" THEN [it EXCEPT !.test_duration = <<c.duration>>]
    ELSE it

makereport(it, c) ==
    IF RecordsException(c.excinfo)
    THEN [set_test_duration(it, c) EXCEPT
              !.has_excinfo = TRUE,
              !.excinfo = @ \o << <<c.when, c.excinfo>> >>]
    ELSE set_test_duration(it, c)

\* ------------------------------------------------ _write_output_files
\* str(excinfo.getrepr(style="long")) of the exception a phase raised.
ExcRepr(t, e) == << <<"E", t, e[1]>> >>

\* "\n\n".join(exception_parts)
RECURSIVE JoinParts(_, _)
JoinParts(t, excinfo) ==
    IF excinfo = << >> THEN << >>
    ELSE IF Len(excinfo) = 1 THEN ExcRepr(t, excinfo[1])
    ELSE ExcRepr(t, excinfo[1])
         \o << <<"\n", t, "join">>, <<"\n", t, "join">> >>
         \o JoinParts(t, Tail(excinfo))

\* json.dumps(exc_to_json(first_excinfo.value, first_excinfo.tb))
ExcJson(t, e) == << <<"J", t, e[1]>> >>

\* The dataclass of constants.py and the call that builds one.
CapturedTestFailureFields ==
    {"location", "artifact_dir", "exception_summary", "duration"}
CapturedTestFailureRequired == {"location", "artifact_dir", "exception_summary"}
TypeError == "TypeError"

CapturedTestFailure(kwargs) ==
    IF /\ DOMAIN kwargs \subseteq CapturedTestFailureFields
       /\ CapturedTestFailureRequired \subseteq DOMAIN kwargs
    THEN [raised |-> "none", value |-> kwargs]
    ELSE [raised |-> TypeError, value |-> kwargs]

\* One write of _write_output_files: skipped once an error was raised;
\* `fault` names the file whose write the disk refuses.
TryWrite(st, cond, name, text, fault) ==
    IF st.raised # "none" \/ ~cond THEN st
    ELSE IF fault = name THEN [st EXCEPT !.raised = "OSError"]
    ELSE [st EXCEPT !.dir = WriteText(st.dir, name, text),
                    !.files_written = TRUE]

\* Only a failure is registered (PERSIST_FAILED_ONLY).
WillPersist(files_written, it) ==
    files_written /\ (~PERSIST_FAILED_ONLY \/ it.has_excinfo)

\* The keyword arguments of the CapturedTestFailure call.
FailureKwargs(t, it) ==
    [nodeid |-> t,
     file |-> IF it.excinfo # << >> THEN <<"tb", t>> ELSE t,
     line |-> IF it.excinfo # << >> THEN it.excinfo[1][1] ELSE NoneVal,
     artifact_dir |-> t,
     exception_summary |->
        IF it.excinfo # << >> THEN it.excinfo[1] ELSE NoneVal,
     duration |-> it.test_duration]

\* _write_output_files for an enabled run: the directory afterwards, the
\* exception raised (or "none") and the stash's list of captured tests.
write_output_files(t, it, dir, o, captured, fault) ==
    LET exception == JoinParts(t, it.excinfo)
        s0 == [dir |-> get_artifact_dir(dir), files_written |-> FALSE,
               raised |-> "none"]
        s1 == TryWrite(s0, it.stdout # << >>, "stdout.txt",
                       StripAnsi(it.stdout), fault)
        s2 == TryWrite(s1, it.stderr # << >>, "stderr.txt",
                       StripAnsi(it.stderr), fault)
        s3 == TryWrite(s2, exception # << >>, "exception.txt",
                       StripAnsi(exception), fault)
        s4 == TryWrite(s3, it.excinfo # << >> /\ o.beautiful_traceback,
                       "exception.json",
                       IF it.excinfo # << >> THEN ExcJson(t, it.excinfo[1])
                                              ELSE << >>,
                       fault)
        built == CapturedTestFailure(FailureKwargs(t, it))
    IN  IF s4.raised # "none" \/ ~WillPersist(s4.files_written, it)
        THEN [dir |-> s4.dir, raised |-> s4.raised, captured |-> captured]
        ELSE IF built.raised # "none"
        THEN [dir |-> s4.dir, raised |-> built.raised, captured |-> captured]
        ELSE [dir |-> s4.dir, raised |-> "none",
              captured |-> Append(captured, built.value)]

\* Mutant: the directory of a passing test is never removed with its files.
ShouldCleanNever(it, dir) == FALSE

\* should_clean of pytest_runtest_protocol
ShouldClean(it, dir) == PERSIST_FAILED_ONLY /\ ~it.has_excinfo /\ dir.exists

\* Mutant: nothing is removed at the end of the protocol.
CleanUpNothing(it, dir, fault) == [dir |-> dir, raised |-> "none"]

\* The end of the protocol's finally block: rmtree, or rmdir of an empty
\* directory.
CleanUp(it, dir, fault) ==
    IF ShouldClean(it, dir)
    THEN IF fault = "rmtree" THEN [dir |-> dir, raised |-> "OSError"]
         ELSE [dir |-> AbsentDir, raised |-> "none"]
    ELSE IF dir.exists /\ DOMAIN dir.files = {}
    THEN IF fault = "rmdir" THEN [dir |-> dir, raised |-> "OSError"]
         ELSE [dir |-> AbsentDir, raised |-> "none"]
    ELSE [dir |-> dir, raised |-> "none"]

\* ------------------------------------------- the process before any patch
\* File descriptors 1 and 2 as the process inherited them.
InheritedFds == [stdout |-> <<"inherited", "stdout">>,
                 stderr |-> <<"inherited", "stderr">>]
NoSubFiles == [dirs |-> {}, files |-> {}]

\* A hook is <<name, n>>: the function, and for a closure the library
\* makes, the call of the installing function that made it.
SysDefault == <<"sys.__excepthook__", 0>>
ThreadingDefault == <<"threading.__excepthook__", 0>>

\* sys.__excepthook__ and threading.__excepthook__
DefaultHooks == [sys |-> SysDefault, threading |-> ThreadingDefault]

\* A record of a logger: the logger, the level, the event and the keyword
\* arguments the library passes.
LogRecord(logger, level, event) ==
    [logger |-> logger, level |-> level, event |-> event,
     exc_info |-> << >>, thread |-> << >>, hook_type |-> << >>]

EmptyLoggerDict == [n \in {} |-> 0]

\* No 'trace' entry in structlog's level tables, no TRACE in logging, no
\* trace method on the logger classes.
Unpatched ==
    [NAME_TO_LEVEL |-> << >>, LEVEL_TO_NAME |-> << >>,
     LEVEL_TO_FILTERING_LOGGER |-> << >>, logging_TRACE |-> << >>,
     level_name |-> << >>, Logger_trace |-> << >>, logging_trace |-> << >>,
     output_loggers |-> [c \in {"PrintLogger", "WriteLogger", "BytesLogger"}
                            |-> << >>]]

SubprocessIdle ==
    /\ proc_environ = Unset
    /\ subprocess_capture_configured = FALSE
    /\ fds = InheritedFds
    /\ subfs = NoSubFiles

HooksIdle ==
    /\ excepthook = DefaultHooks
    /\ hookcalls = << >>

LoggingIdle ==
    /\ loggerDict = EmptyLoggerDict
    /\ setup_called = FALSE
    /\ patched = Unpatched

Functions ==
    {"configure_subprocess_capture", "install_exception_hook",
     "setup_exception_hook", "clear_existing_logger_handlers", "setup_trace",
     "redirect_stdlib_loggers"}
NoCalls == [f \in Functions |-> 0]

\* The library is not used while the plugin's session runs.
LibIdle ==
    SubprocessIdle /\ HooksIdle /\ LoggingIdle /\ log = << >> /\ calls = NoCalls

\* No request was received, logging is as the interpreter starts it: the
\* root logger at WARNING without handlers, no LOG_* variable set.
NoEnviron == [v \in {} |-> ""]
DefaultLevels == [n \in {<< >>} |-> "WARNING"]

AppIdle ==
    /\ requests = << >>
    /\ access_log = << >>
    /\ root_handlers = << >>
    /\ logger_levels = DefaultLevels
    /\ log_environ = NoEnviron

\* ------------------------------------------------------------------- Init
\* At most one artifact directory is left over from an earlier run.
InitDirs ==
    {[t \in Tests |-> AbsentDir]}
    \cup {[t \in Tests |-> IF t = s THEN StaleDir ELSE AbsentDir] : s \in Tests}

\* The command lines that differ only in --structlog-output.
MainOptions ==
    {o \in Options : ~o.no_structlog /\ ~o.usepdb /\ ~o.trace /\ o.capture = "no"}

NoWrites == [w \in Places |-> [stdout |-> << >>, stderr |-> << >>]]

\* The session before pytest_configure, with the results.json the output
\* directory holds.
SessionInit(options, dirs, json) ==
    /\ pc = "configure"
    /\ opt \in options
    /\ cur = 0
    /\ when = "setup"
    /\ call = [when |-> "setup", excinfo |-> "none", duration |-> 0]
    /\ stash = DisabledStash
    /\ environ = Unset
    /\ sys = [stdout |-> OrigStdout, stderr |-> OrigStderr]
    /\ capture = NoCapture
    /\ item = NewItem
    /\ fs \in dirs
    /\ reporter = [section |-> FALSE, entries |-> << >>,
                   slow_section |-> FALSE, slow |-> << >>]
    /\ results = json
    /\ exc = "none"
    /\ emits = 0
    /\ wrote = NoWrites
    /\ failed = << >>
    /\ outcomes = << >>
    /\ stats = << >>

PluginInit(options, dirs) == SessionInit(options, dirs, NoResults)

InitFrom(options, dirs) == PluginInit(options, dirs) /\ LibIdle /\ AppIdle

Init == InitFrom(MainOptions, InitDirs)

\* Every command line, with the first item's directory left over.
InitOptions ==
    InitFrom(Options, {[t \in Tests |-> IF t = 1 THEN StaleDir ELSE AbsentDir]})

\* --------------------------------------------------- pytest_runtest_protocol
\* os.environ[SUBPROCESS_CAPTURE_ENV] = str(artifact_dir)
environ_set(e, artifact_dir) == <<artifact_dir>>

\* Mutant: the variable is left in the environment.
environ_keep(e) == e

\* os.environ.pop(SUBPROCESS_CAPTURE_ENV, None)
environ_pop(e) == Unset

Faults == {"none", "stdout.txt", "stderr.txt", "exception.txt",
           "exception.json", "rmtree", "rmdir"}

\* Up to the yield, for the next item: the artifact directory is made and
\* wiped, the environment variable set.  A disabled run goes straight to the
\* phases.
pytest_runtest_protocol_begin ==
    /\ pc = "loop"
    /\ cur < NumTests
    /\ cur' = cur + 1
    /\ item' = NewItem
    /\ wrote' = NoWrites
    /\ emits' = 0
    /\ when' = "setup"
    /\ IF ~stash[CAPTURE_ENABLED_KEY]
       THEN /\ pc' = "phase"
            /\ UNCHANGED <<fs, environ, exc>>
       ELSE /\ fs' = [fs EXCEPT ![cur'] =
                            clean_artifact_dir(get_artifact_dir(fs[cur']))]
            /\ environ' = environ_set(environ, cur')
            /\ pc' = "phase"
            /\ UNCHANGED exc
    /\ UNCHANGED <<opt, call, stash, sys, capture, reporter, results, failed,
                   stats>>
    /\ outcomes' = << >>
    /\ UNCHANGED libVars
    /\ UNCHANGED appVars

\* The finally block: the variable is dropped, the files are written, the
\* directory of a test without failure is removed.  An exception raised in it
\* leaves the hook, and pytest ends the session with an internal error.
ProtocolEndF(fault) ==
    /\ pc = "finish"
    /\ failed' = IF item.has_excinfo THEN Append(failed, cur) ELSE failed
    /\ IF ~stash[CAPTURE_ENABLED_KEY]
       THEN /\ pc' = "loop"
            /\ UNCHANGED <<environ, fs, stash, exc>>
       ELSE LET w == write_output_files(cur, item, fs[cur], opt,
                                        stash.captured_tests, fault)
                c == CleanUp(item, w.dir, fault)
            IN  /\ environ' = environ_pop(environ)
                /\ stash' = [stash EXCEPT !.captured_tests = w.captured]
                /\ IF w.raised # "none"
                   THEN /\ fs' = [fs EXCEPT ![cur] = w.dir]
                        /\ exc' = w.raised
                        /\ pc' = "internal_error"
                   ELSE IF c.raised # "none"
                   THEN /\ fs' = [fs EXCEPT ![cur] = c.dir]
                        /\ exc' = c.raised
                        /\ pc' = "internal_error"
                   ELSE /\ fs' = [fs EXCEPT ![cur] = c.dir]
                        /\ pc' = "loop"
                        /\ UNCHANGED exc
    /\ UNCHANGED <<opt, cur, when, call, sys, capture, item, reporter,
                   results, emits, wrote, outcomes, stats>>
    /\ UNCHANGED libVars
    /\ UNCHANGED appVars

pytest_runtest_protocol_end == ProtocolEndF("none")

\* ----------------------- pytest_runtest_setup / _call / _teardown (wrappers)
\* _simple_capture_phase up to its yield.
PhaseEnter ==
    /\ pc = "phase"
    /\ IF ~stash[CAPTURE_ENABLED_KEY]
       THEN UNCHANGED <<capture, sys, root_handlers>>
       ELSE /\ capture' = CaptureStart(sys)
            /\ sys' = CapturedSys
            /\ root_handlers' = RedirectHandlers(root_handlers, capture')
    /\ pc' = "body"
    /\ UNCHANGED <<opt, cur, when, call, stash, environ, item, fs, reporter,
                   results, exc, emits, wrote, failed, outcomes, stats>>
    /\ UNCHANGED libVars
    /\ UNCHANGED <<requests, access_log, logger_levels, log_environ>>

\* A write to sys.stdout or sys.stderr lands in whatever object the name is
\* bound to at that moment: a StringIO of the capture, or the real stream
\* (the terminal, which is not part of the state).
Deliver(c, obj, text) ==
    IF obj = CapStdout THEN [c EXCEPT !.stdout_capture = @ \o text]
    ELSE IF obj = CapStderr THEN [c EXCEPT !.stderr_capture = @ \o text]
    ELSE c

\* A write by the test (pc = "body") or by another plugin's report hook
\* (pc = "report"), of one of the given chunks.
EmitFrom(chunks) ==
    /\ pc \in {"body", "report"}
    /\ emits < MaxEmits
    /\ \E stream \in {"stdout", "stderr"} : \E chunk \in chunks[stream] :
         LET w == IF pc = "body" THEN when ELSE "report"
             text == Tag(chunk, cur, w)
         IN  /\ capture' = Deliver(capture, sys[stream], text)
             /\ wrote' = [wrote EXCEPT ![w][stream] = @ \o text]
    /\ emits' = emits + 1
    /\ UNCHANGED <<pc, opt, cur, when, call, stash, environ, sys, item, fs,
                   reporter, results, exc, failed, outcomes, stats>>
    /\ UNCHANGED libVars
    /\ UNCHANGED appVars

Emit == EmitFrom(Chunks)

\* The phase ends, passing, skipping or failing; the finally of
\* _simple_capture_phase stops the capture and accumulates its output.
PhaseExitIn(durations) ==
    /\ pc = "body"
    /\ \E outcome \in {"none", "skip", "fail"} : \E duration \in durations :
         call' = [when |-> when, excinfo |-> outcome, duration |-> duration]
    /\ outcomes' = Append(outcomes, call')
    /\ IF ~stash[CAPTURE_ENABLED_KEY]
       THEN UNCHANGED <<capture, sys, item, root_handlers>>
       ELSE /\ root_handlers' = RestoreHandlers(root_handlers, capture)
            /\ sys' = RestoredSys(capture)
            /\ item' = accumulate_captured_output(item, CapturedOutput(capture))
            /\ capture' = NoCapture
    /\ pc' = "report"
    /\ UNCHANGED <<opt, cur, when, stash, environ, fs, reporter, results, exc,
                   emits, wrote, failed, stats>>
    /\ UNCHANGED libVars
    /\ UNCHANGED <<requests, access_log, logger_levels, log_environ>>

\* The tests of the session are fast: no phase takes a measurable time.
PhaseExit == PhaseExitIn(FastDurations)

\* pytest's runtestprotocol: call runs only after a setup that passed,
\* teardown always.
NextPhase(c) ==
    IF c.when = "setup" THEN (IF c.excinfo = "none" THEN "call" ELSE "teardown")
    ELSE IF c.when = "call" THEN "teardown"
    ELSE "end"

\* pytest's terminal reporter files the report of a call phase that passed
\* under "passed"; the passed reports of setup and teardown go under "".
logreport(passed, t, c) ==
    IF c.when = "call" /\ c.excinfo = "none"
    THEN Append(passed, [nodeid |-> t, when |-> c.when, duration |-> c.duration])
    ELSE passed

pytest_runtest_makereport ==
    /\ pc = "report"
    /\ item' = makereport(item, call)
    /\ stats' = logreport(stats, cur, call)
    /\ IF NextPhase(call) = "end"
       THEN pc' = "finish" /\ UNCHANGED when
       ELSE pc' = "phase" /\ when' = NextPhase(call)
    /\ UNCHANGED <<opt, cur, call, stash, environ, sys, capture, fs, reporter,
                   results, exc, emits, wrote, failed, outcomes>>
    /\ UNCHANGED libVars
    /\ UNCHANGED appVars

\* --------------------------------------------------- pytest_terminal_summary
\* One '[failed]' entry of the section, and one entry of results.json.
SummaryEntry(failure) == failure.nodeid
ResultsEntry(failure) ==
    [file |-> failure.file, test |-> failure.nodeid, line |-> failure.line,
     exception |-> failure.exception_summary, logs |-> failure.artifact_dir]

\* _write_results_json
write_results_json(captured_tests) ==
    [exists |-> TRUE,
     entries |-> [i \in 1..Len(captured_tests) |->
                    ResultsEntry(captured_tests[i])]]

\* Mutant: results.json is written in every run with capture enabled.
ShouldWriteResultsAlways(enabled, captured_tests) == enabled

\* if capture_config[CAPTURE_ENABLED_KEY] and captured_tests
ShouldWriteResults(enabled, captured_tests) ==
    enabled /\ captured_tests # << >>

\* Mutant: a report counts as slow only above the threshold.
IsSlowAbove(report, threshold) ==
    report.when = "call" /\ report.duration > threshold

\* The test of _collect_slow_reports.
IsSlow(report, threshold) ==
    report.when = "call" /\ report.duration >= threshold

\* The loop of _collect_slow_reports: the slow reports, in the order of
\* stats["passed"].
RECURSIVE SelectSlow(_, _)
SelectSlow(passed, threshold) ==
    IF passed = << >> THEN << >>
    ELSE (IF IsSlow(Head(passed), threshold) THEN <<Head(passed)>> ELSE << >>)
         \o SelectSlow(Tail(passed), threshold)

\* sorted(slow, key=lambda r: r.duration, reverse=True): a stable sort, so a
\* report goes behind every report that is at least as long.
InsertByDuration(sorted, r) ==
    LET k == Cardinality({i \in DOMAIN sorted : sorted[i].duration >= r.duration})
    IN  SubSeq(sorted, 1, k) \o <<r>> \o SubSeq(sorted, k + 1, Len(sorted))

RECURSIVE SortedByDuration(_)
SortedByDuration(slow) ==
    IF slow = << >> THEN << >>
    ELSE InsertByDuration(SortedByDuration(SubSeq(slow, 1, Len(slow) - 1)),
                          slow[Len(slow)])

collect_slow_reports(passed, threshold) ==
    SortedByDuration(SelectSlow(passed, threshold))

\* One '[slow]' line: the duration and the node id.
SlowLine(report) == [duration |-> report.duration, nodeid |-> report.nodeid]

\* Called when every item has run and no hook raised.
pytest_terminal_summary ==
    /\ pc = "loop"
    /\ cur = NumTests
    /\ LET captured_tests ==
             IF stash.has_captured_tests THEN stash.captured_tests ELSE << >>
           captured ==
             IF stash[CAPTURE_ENABLED_KEY] /\ captured_tests # << >>
             THEN [reporter EXCEPT
                      !.section = TRUE,
                      !.entries = [i \in 1..Len(captured_tests) |->
                                      SummaryEntry(captured_tests[i])]]
             ELSE reporter
           slow_reports ==
             IF stash.slow_threshold # NoThreshold
             THEN collect_slow_reports(stats, stash.slow_threshold[1])
             ELSE << >>
       IN  /\ results' =
                IF ShouldWriteResults(stash[CAPTURE_ENABLED_KEY], captured_tests)
                THEN write_results_json(captured_tests)
                ELSE results
           /\ reporter' =
                IF slow_reports # << >>
                THEN [captured EXCEPT
                         !.slow_section = TRUE,
                         !.slow = [i \in 1..Len(slow_reports) |->
                                      SlowLine(slow_reports[i])]]
                ELSE captured
    /\ pc' = "done"
    /\ UNCHANGED <<opt, cur, when, call, stash, environ, sys, capture, item,
                   fs, exc, emits, wrote, failed, outcomes, stats>>
    /\ UNCHANGED libVars
    /\ UNCHANGED appVars

\* ------------------------------------------------------------ specification
Next ==
    \/ pytest_configure
    \/ pytest_runtest_protocol_begin
    \/ PhaseEnter
    \/ Emit
    \/ PhaseExit
    \/ pytest_runtest_makereport
    \/ pytest_runtest_protocol_end
    \/ pytest_terminal_summary

Spec == Init /\ [][Next]_vars

\* The same session on a disk that may refuse one operation of a hook
\* (a write_text, a rmtree or a rmdir raising OSError).
pytest_runtest_protocol_end_faulty == \E fault \in Faults : ProtocolEndF(fault)

NextFault ==
    \/ pytest_configure
    \/ pytest_runtest_protocol_begin
    \/ PhaseEnter
    \/ Emit
    \/ PhaseExit
    \/ pytest_runtest_makereport
    \/ pytest_runtest_protocol_end_faulty
    \/ pytest_terminal_summary

SpecFault == Init /\ [][NextFault]_vars

\* The same session for every command line, the tests printing plain text.
EmitPlain == EmitFrom(PlainChunks)

NextOptions ==
    \/ pytest_configure
    \/ pytest_runtest_protocol_begin
    \/ PhaseEnter
    \/ EmitPlain
    \/ PhaseExit
    \/ pytest_runtest_makereport
    \/ pytest_runtest_protocol_end
    \/ pytest_terminal_summary

SpecOptions == InitOptions /\ [][NextOptions]_vars

\* A second run with capture enabled over the output directory of an
\* earlier run in which every test failed: each test's directory and
\* results.json are left over.
StaleResults ==
    [exists |-> TRUE,
     entries |-> [t \in Tests |->
                    [file |-> <<"tb", t>>, test |-> t, line |-> "call",
                     exception |-> <<"call", "fail">>, logs |-> t]]]

InitRerun ==
    /\ SessionInit({o \in MainOptions : o.structlog_output # NoneVal},
                   {[t \in Tests |-> StaleDir]}, StaleResults)
    /\ LibIdle
    /\ AppIdle

SpecRerun == InitRerun /\ [][NextOptions]_vars

\* The same session with tests that take time and print nothing, for the
\* command lines that differ in capture and in --slow-test-threshold.
SlowOptions ==
    [no_structlog : BOOLEAN, usepdb : BOOLEAN, trace : {FALSE},
     structlog_output : {NoneVal, "out"}, capture : {"no", "fd"},
     beautiful_traceback : {FALSE}, slow_test_threshold : Thresholds]

InitSlow == InitFrom(SlowOptions, {[t \in Tests |-> AbsentDir]})

PhaseExitTimed == PhaseExitIn(Durations)

NextSlow ==
    \/ pytest_configure
    \/ pytest_runtest_protocol_begin
    \/ PhaseEnter
    \/ PhaseExitTimed
    \/ pytest_runtest_makereport
    \/ pytest_runtest_protocol_end
    \/ pytest_terminal_summary

SpecSlow == InitSlow /\ [][NextSlow]_vars

\* The same session with tests that print nothing but change where output
\* goes: they add a StreamHandler on sys.stdout or sys.stderr to the root
\* logger, and replace sys.stdout with a stream of their own.
MaxHandlers == 2
TestStream == "test_stream"

add_handler ==
    /\ pc = "body"
    /\ Len(root_handlers) < MaxHandlers
    /\ \E stream \in {"stdout", "stderr"} :
         root_handlers' = Append(root_handlers, sys[stream])
    /\ UNCHANGED pluginVars
    /\ UNCHANGED libVars
    /\ UNCHANGED <<requests, access_log, logger_levels, log_environ>>

replace_stdout ==
    /\ pc = "body"
    /\ sys.stdout # TestStream
    /\ sys' = [sys EXCEPT !.stdout = TestStream]
    /\ UNCHANGED <<pc, opt, cur, when, call, stash, environ, capture, item, fs,
                   reporter, results, exc, emits, wrote, failed, outcomes,
                   stats>>
    /\ UNCHANGED libVars
    /\ UNCHANGED appVars

\* The root logger may have a handler on a real stream before the session.
InitCapture ==
    /\ PluginInit({o \in MainOptions : ~o.beautiful_traceback},
                  {[t \in Tests |-> AbsentDir]})
    /\ LibIdle
    /\ requests = << >>
    /\ access_log = << >>
    /\ root_handlers \in {<< >>, <<OrigStdout>>, <<OrigStderr>>}
    /\ logger_levels = DefaultLevels
    /\ log_environ = NoEnviron

NextCapture ==
    \/ pytest_configure
    \/ pytest_runtest_protocol_begin
    \/ PhaseEnter
    \/ add_handler
    \/ replace_stdout
    \/ PhaseExit
    \/ pytest_runtest_makereport
    \/ pytest_runtest_protocol_end
    \/ pytest_terminal_summary

SpecCapture == InitCapture /\ [][NextCapture]_vars

\* ----------------------------------------------- configure_subprocess_capture
\* A process spawned by a test.  Its environment holds what the parent put
\* in STRUCTLOG_CAPTURE_DIR when it was spawned, and may change later.
EnvValues == {Unset, <<"">>, <<"d1">>, <<"d2">>}

\* `not output_dir`: the variable is unset or empty.
EnvMissing(e) == e = Unset \/ e = <<"">>

\* subprocess-<pid>-stdout.txt and subprocess-<pid>-stderr.txt in dir.
CaptureFiles(dir) ==
    [stdout |-> <<dir, "subprocess-pid-stdout.txt">>,
     stderr |-> <<dir, "subprocess-pid-stderr.txt">>]

\* mkdir(parents=True, exist_ok=True), then both files opened for append.
OpenCaptureFiles(disk, dir) ==
    [dirs |-> disk.dirs \cup {dir},
     files |-> disk.files \cup {CaptureFiles(dir).stdout, CaptureFiles(dir).stderr}]

Called(f) == calls' = [calls EXCEPT ![f] = @ + 1]

\* Mutant: the guard flag is not looked at.
AlreadyConfiguredNever(flag) == FALSE

\* if _subprocess_capture_configured: return
AlreadyConfigured(flag) == flag

configure_subprocess_capture ==
    /\ calls["configure_subprocess_capture"] < MaxCalls
    /\ Called("configure_subprocess_capture")
    /\ IF AlreadyConfigured(subprocess_capture_configured)
       THEN UNCHANGED <<subprocess_capture_configured, fds, subfs, log>>
       ELSE IF EnvMissing(proc_environ)
       THEN /\ log' = Append(log, LogRecord("structlog_config.pytest_plugin",
                                            "error",
                                            "subprocess capture env not set"))
            /\ UNCHANGED <<subprocess_capture_configured, fds, subfs>>
       ELSE /\ subfs' = OpenCaptureFiles(subfs, proc_environ[1])
            /\ fds' = CaptureFiles(proc_environ[1])
            /\ subprocess_capture_configured' = TRUE
            /\ UNCHANGED log
    /\ UNCHANGED <<proc_environ, excepthook, hookcalls, loggerDict,
                   setup_called, patched>>
    /\ UNCHANGED pluginVars
    /\ UNCHANGED appVars

\* The process changes the variable in its own environment.
putenv ==
    /\ \E e \in EnvValues \ {proc_environ} : proc_environ' = e
    /\ UNCHANGED <<subprocess_capture_configured, fds, subfs, excepthook,
                   hookcalls, loggerDict, setup_called, patched, log, calls>>
    /\ UNCHANGED pluginVars
    /\ UNCHANGED appVars

\* ---------------------------------------- clear_existing_logger_handlers
\* logging.Logger.manager.loggerDict maps a name to a Logger, or to a
\* PlaceHolder for a parent name nobody asked a logger for.
LoggerNames == {"some", "some.child"}

Loggers ==
    [kind : {"Logger"}, handlers : {<< >>, <<"handler">>}, propagate : BOOLEAN]
PlaceHolder == [kind |-> "PlaceHolder", handlers |-> << >>, propagate |-> FALSE]

\* The tables the logging module can hold for these names: the child is a
\* Logger, and then the parent has an entry; a PlaceHolder has a child.
LoggerTables ==
    {[n \in {} |-> PlaceHolder]}
    \cup {[n \in {"some"} |-> l] : l \in Loggers}
    \cup {[n \in LoggerNames |-> IF n = "some" THEN parent ELSE child] :
            parent \in Loggers \cup {PlaceHolder}, child \in Loggers}

\* Mutant: the propagate flag of a cleared logger is left as it was.
clear_handlers_only(logger) ==
    IF logger.kind = "Logger" /\ logger.handlers # << >>
    THEN [logger EXCEPT !.handlers = << >>]
    ELSE logger

\* The body of the loop, for one entry.
clear_handlers(logger) ==
    IF logger.kind = "Logger" /\ logger.handlers # << >>
    THEN [logger EXCEPT !.handlers = << >>, !.propagate = TRUE]
    ELSE logger

\* The warning for an entry that is neither a Logger nor a PlaceHolder.
UnexpectedType(logger) ==
    IF logger.kind \notin {"Logger", "PlaceHolder"}
    THEN << LogRecord("structlog_config.constants", "warning",
                      "unexpected type in loggerDict") >>
    ELSE << >>

RECURSIVE UnexpectedTypes(_, _)
UnexpectedTypes(table, names) ==
    IF names = {} THEN << >>
    ELSE LET n == CHOOSE x \in names : TRUE
         IN  UnexpectedType(table[n]) \o UnexpectedTypes(table, names \ {n})

clear_existing_logger_handlers ==
    /\ calls["clear_existing_logger_handlers"] < MaxCalls
    /\ Called("clear_existing_logger_handlers")
    /\ loggerDict' = [n \in DOMAIN loggerDict |-> clear_handlers(loggerDict[n])]
    /\ log' = log \o UnexpectedTypes(loggerDict, DOMAIN loggerDict)
    /\ UNCHANGED <<proc_environ, subprocess_capture_configured, fds, subfs,
                   excepthook, hookcalls, setup_called, patched>>
    /\ UNCHANGED pluginVars
    /\ UNCHANGED appVars

\* ------------------------------------------------------------- setup_trace
TRACE_LOG_LEVEL == 5

\* What was patched by somebody else before setup_trace ran.
Foreign == <<"foreign">>
Ours == <<"structlog_config">>

PrePatched ==
    {[Unpatched EXCEPT !.NAME_TO_LEVEL = a, !.LEVEL_TO_FILTERING_LOGGER = b,
                       !.Logger_trace = c, !.logging_trace = d,
                       !.output_loggers["PrintLogger"] = e] :
        a \in {<< >>, <<TRACE_LOG_LEVEL>>}, b \in {<< >>, Foreign},
        c \in {<< >>, Foreign}, d \in {<< >>, Foreign},
        e \in {<< >>, Foreign}}

\* Mutant: the attribute is set whether or not one is there.
SetAlways(old, new) == new

\* hasattr(...) guards: what is there is kept.
SetIfMissing(old, new) == IF old = << >> THEN new ELSE old

\* The patches of setup_trace, _patch_structlog_output_loggers included.
PatchTrace(p) ==
    [NAME_TO_LEVEL |-> <<TRACE_LOG_LEVEL>>,
     LEVEL_TO_NAME |-> <<"trace">>,
     LEVEL_TO_FILTERING_LOGGER |-> Ours,
     logging_TRACE |-> SetIfMissing(p.logging_TRACE, <<TRACE_LOG_LEVEL>>),
     level_name |-> <<"TRACE">>,
     Logger_trace |-> SetIfMissing(p.Logger_trace, Ours),
     logging_trace |-> SetIfMissing(p.logging_trace, Ours),
     output_loggers |-> [c \in DOMAIN p.output_loggers |->
                            SetIfMissing(p.output_loggers[c], <<"msg">>)]]

Warning(event) == LogRecord("root", "warning", event)

\* The logging.warning calls of setup_trace.
TraceWarnings(p) ==
    (IF p.Logger_trace # << >>
     THEN <<Warning("Logger.trace method already exists, not overriding it")>>
     ELSE << >>)
    \o (IF p.logging_trace # << >>
        THEN <<Warning("logging.trace function already exists, not overriding it")>>
        ELSE << >>)

\* Mutant: the flag is not looked at.
AlreadySetUpNever(flag) == FALSE

\* if _setup_called: return
AlreadySetUp(flag) == flag

setup_trace ==
    /\ calls["setup_trace"] < MaxCalls
    /\ Called("setup_trace")
    /\ IF AlreadySetUp(setup_called)
       THEN UNCHANGED <<patched, log, setup_called>>
       ELSE /\ patched' = PatchTrace(patched)
            /\ log' = log \o TraceWarnings(patched)
            /\ setup_called' = TRUE
    /\ UNCHANGED <<proc_environ, subprocess_capture_configured, fds, subfs,
                   excepthook, hookcalls, loggerDict>>
    /\ UNCHANGED pluginVars
    /\ UNCHANGED appVars

\* --------------------------------------------------------- exception hooks
\* Hooks somebody else put in the slots before the library is asked to
\* install its own, for example a distribution's crash reporter.
CrashReporter == <<"crash_reporter", 0>>
ThreadCrashReporter == <<"thread_crash_reporter", 0>>

\* The exception classes raised, with their base classes.
Mro ==
    [ValueError |-> {"ValueError", "Exception", "BaseException"},
     KeyboardInterrupt |-> {"KeyboardInterrupt", "BaseException"},
     Interrupted |-> {"Interrupted", "KeyboardInterrupt", "BaseException"}]
ExcTypes == DOMAIN Mro

\* Mutant: only the class KeyboardInterrupt itself counts.
IsExactlyKeyboardInterrupt(exc_type) == exc_type = "KeyboardInterrupt"

\* issubclass(exc_type, KeyboardInterrupt)
IsKeyboardInterrupt(exc_type) == "KeyboardInterrupt" \in Mro[exc_type]

\* The thread a threading hook is called for.
ThreadInfo ==
    [name |-> "Thread-1", id |-> 1, native_id |-> 1, is_daemon |-> FALSE]

\* Mutant: the thread is left out of the event.
uncaught_exception_event_without_thread(exc_type, thread) ==
    [LogRecord("structlog", "error", "uncaught_exception") EXCEPT
        !.exc_info = <<exc_type>>]

\* logger.exception("uncaught_exception", exc_info=..., **logger_kwargs):
\* thread is << >> for None.
uncaught_exception_event(exc_type, thread) ==
    [LogRecord("structlog", "error", "uncaught_exception") EXCEPT
        !.exc_info = <<exc_type>>, !.thread = thread]

\* _log_uncaught_exception of hook.py, called by `hook`: the functions that
\* run and the events logged.
LogUncaughtException(hook, exc_type, thread) ==
    IF IsKeyboardInterrupt(exc_type)
    THEN [ran |-> <<hook, SysDefault>>, events |-> << >>]
    ELSE [ran |-> <<hook>>,
          events |-> <<uncaught_exception_event(exc_type, thread)>>]

\* log_uncaught_exception of exception_logging.py: the event is the name of
\* the exception class.
log_uncaught_exception(hook, exc_type) ==
    IF IsKeyboardInterrupt(exc_type)
    THEN [ran |-> <<hook, SysDefault>>, events |-> << >>]
    ELSE [ran |-> <<hook>>,
          events |-> << [LogRecord("structlog", "error", exc_type) EXCEPT
                            !.exc_info = <<exc_type>>] >>]

\* What calling the hook of a slot does.  The default hooks and the crash
\* reporters print; they log nothing and call no other hook.
RunHook(hook, exc_type) ==
    IF hook[1] = "structlog_excepthook"
    THEN LogUncaughtException(hook, exc_type, << >>)
    ELSE IF hook[1] = "structlog_threading_excepthook"
    THEN LogUncaughtException(hook, exc_type, <<ThreadInfo>>)
    ELSE IF hook[1] = "log_uncaught_exception"
    THEN log_uncaught_exception(hook, exc_type)
    ELSE [ran |-> <<hook>>, events |-> << >>]

\* Mutant: an existing hook is never reported.
NonDefaultNever(hook, default) == FALSE

\* sys.excepthook is not sys.__excepthook__
NonDefault(hook, default) == hook # default

Installation(function) ==
    [kind |-> "install", what |-> function, slot |-> "", hooks |-> excepthook,
     ran |-> << >>]

\* The notice of install_exception_hook for one slot.
Overriding(hook_type) ==
    [LogRecord("structlog_config.constants", "info",
               "overriding non-default excepthook") EXCEPT
        !.hook_type = <<hook_type>>]

install_exception_hook ==
    /\ calls["install_exception_hook"] < MaxCalls
    /\ Len(hookcalls) < MaxHookCalls
    /\ Called("install_exception_hook")
    /\ log' = log
              \o (IF NonDefault(excepthook.sys, SysDefault)
                  THEN <<Overriding("sys")>> ELSE << >>)
              \o (IF NonDefault(excepthook.threading, ThreadingDefault)
                  THEN <<Overriding("threading")>> ELSE << >>)
    /\ excepthook' =
          [sys |-> <<"structlog_excepthook",
                     calls'["install_exception_hook"]>>,
           threading |-> <<"structlog_threading_excepthook",
                           calls'["install_exception_hook"]>>]
    /\ hookcalls' = Append(hookcalls, Installation("install_exception_hook"))
    /\ UNCHANGED <<proc_environ, subprocess_capture_configured, fds, subfs,
                   loggerDict, setup_called, patched>>
    /\ UNCHANGED pluginVars
    /\ UNCHANGED appVars

setup_exception_hook ==
    /\ calls["setup_exception_hook"] < MaxCalls
    /\ Len(hookcalls) < MaxHookCalls
    /\ Called("setup_exception_hook")
    /\ log' = log
              \o (IF NonDefault(excepthook.sys, SysDefault)
                  THEN <<LogRecord("structlog_config.constants", "warning",
                           "An existing exception hook is already installed")>>
                  ELSE << >>)
    /\ excepthook' =
          [excepthook EXCEPT
              !.sys = <<"log_uncaught_exception", calls'["setup_exception_hook"]>>]
    /\ hookcalls' = Append(hookcalls, Installation("setup_exception_hook"))
    /\ UNCHANGED <<proc_environ, subprocess_capture_configured, fds, subfs,
                   loggerDict, setup_called, patched>>
    /\ UNCHANGED pluginVars
    /\ UNCHANGED appVars

\* An exception nobody caught, in the main thread (slot "sys") or in another
\* thread (slot "threading"): the interpreter calls the hook of the slot.
uncaught_exception ==
    /\ Len(hookcalls) < MaxHookCalls
    /\ \E slot \in {"sys", "threading"} : \E exc_type \in ExcTypes :
         LET r == RunHook(excepthook[slot], exc_type)
         IN  /\ hookcalls' = Append(hookcalls,
                    [kind |-> "raise", what |-> exc_type, slot |-> slot,
                     hooks |-> excepthook, ran |-> r.ran])
             /\ log' = log \o r.events
    /\ UNCHANGED <<proc_environ, subprocess_capture_configured, fds, subfs,
                   excepthook, loggerDict, setup_called, patched, calls>>
    /\ UNCHANGED pluginVars
    /\ UNCHANGED appVars

\* ------------------------------------------------- a process using the library
\* The plugin's session has not started.
PluginIdle ==
    PluginInit({o \in MainOptions : o.structlog_output = NoneVal
                                      /\ ~o.beautiful_traceback},
               {[t \in Tests |-> AbsentDir]})

InitProcess ==
    /\ PluginIdle
    /\ AppIdle
    /\ HooksIdle
    /\ proc_environ \in EnvValues
    /\ subprocess_capture_configured = FALSE
    /\ fds = InheritedFds
    /\ subfs \in {NoSubFiles, [dirs |-> {"d1"}, files |-> {}]}
    /\ loggerDict \in LoggerTables
    /\ setup_called = FALSE
    /\ patched \in PrePatched
    /\ log = << >>
    /\ calls = NoCalls

NextProcess ==
    \/ putenv
    \/ configure_subprocess_capture
    \/ clear_existing_logger_handlers
    \/ setup_trace

SpecProcess == InitProcess /\ [][NextProcess]_vars

\* A process that installs the exception hooks, over the default hooks or
\* over somebody else's, and in which exceptions go uncaught.
InitHooks ==
    /\ PluginIdle
    /\ AppIdle
    /\ SubprocessIdle
    /\ LoggingIdle
    /\ excepthook \in [sys : {SysDefault, CrashReporter},
                        threading : {ThreadingDefault, ThreadCrashReporter}]
    /\ hookcalls = << >>
    /\ log = << >>
    /\ calls = NoCalls

NextHooks ==
    \/ install_exception_hook
    \/ setup_exception_hook
    \/ uncaught_exception

SpecHooks == InitHooks /\ [][NextHooks]_vars

\* ------------------------------------------------- redirect_stdlib_loggers
MaxEnvVars == 2

\* A logger's name is the sequence of the parts between its dots; the root
\* logger's is empty.  A variable's name is the sequence of the words
\* between its underscores.
Root == << >>
Httpx == <<"httpx">>
Stripe == <<"stripe">>
Asyncio == <<"asyncio">>
AzureHttpLoggingPolicy ==
    <<"azure", "core", "pipeline", "policies", "http_logging_policy">>

LevelNames == {"DEBUG", "INFO", "WARNING", "ERROR"}

\* logging's numbers of the level names.
LevelNo == [l \in LevelNames |->
              CASE l = "DEBUG" -> 10 [] l = "INFO" -> 20
                [] l = "WARNING" -> 30 [] l = "ERROR" -> 40]

\* levels.compare_log_levels: the difference of the levels' numbers.
compare_log_levels(left, right) == LevelNo[left] - LevelNo[right]

\* levels.get_environment_log_level_as_string
get_environment_log_level_as_string(env) ==
    IF <<"LOG", "LEVEL">> \in DOMAIN env THEN env[<<"LOG", "LEVEL">>] ELSE "INFO"

\* constants.PYTHONASYNCIODEBUG
PYTHONASYNCIODEBUG(env) ==
    /\ <<"PYTHONASYNCIODEBUG">> \in DOMAIN env
    /\ env[<<"PYTHONASYNCIODEBUG">>] = "1"

\* str.lower, on the words used in variable names.
Lower(word) ==
    CASE word = "HTTPX" -> "httpx" [] word = "STRIPE" -> "stripe"
      [] word = "ASYNCIO" -> "asyncio" [] word = "AZURE" -> "azure"
      [] word = "CORE" -> "core" [] word = "PIPELINE" -> "pipeline"
      [] word = "POLICIES" -> "policies" [] word = "HTTP" -> "http"
      [] word = "LOGGING" -> "logging" [] word = "POLICY" -> "policy"
      [] word = "MY" -> "my" [] word = "LOGGER" -> "logger"

\* match.group(1).lower().replace("_", "."): every underscore of the
\* variable's name ends a part of the logger's name.
logger_name_of(suffix) == [i \in 1..Len(suffix) |-> Lower(suffix[i])]

\* LOG_LEVEL_PATTERN / LOG_PATH_PATTERN: ^LOG_<kind>_(.+)$
Matches(kind, v) == Len(v) > 2 /\ SubSeq(v, 1, 2) = <<"LOG", kind>>

get_custom_logger_configs(env) ==
    LET named(kind, n) ==
            {v \in DOMAIN env :
                Matches(kind, v) /\ logger_name_of(SubSeq(v, 3, Len(v))) = n}
        entry(kind, n) ==
            IF named(kind, n) = {} THEN << >>
            ELSE << env[CHOOSE v \in named(kind, n) : TRUE] >>
        names == {logger_name_of(SubSeq(v, 3, Len(v))) :
                    v \in {w \in DOMAIN env :
                             Matches("LEVEL", w) \/ Matches("PATH", w)}}
    IN  [n \in names |-> [level |-> entry("LEVEL", n), path |-> entry("PATH", n)]]

\* The built-in table of managed loggers, asyncio unless PYTHONASYNCIODEBUG.
std_logging_configuration(asynciodebug) ==
    [n \in {Httpx, AzureHttpLoggingPolicy, Stripe}
             \cup (IF asynciodebug THEN {} ELSE {Asyncio}) |->
        IF n = Asyncio
        THEN [level |-> <<"WARNING">>, levels |-> [g \in {} |-> ""]]
        ELSE [level |-> << >>, levels |-> [g \in {"INFO"} |-> "WARNING"]]]

\* The static override of a managed logger, dropped when it is below the
\* global level.
static_override(logger_config, global_log_level) ==
    LET level_override ==
            IF logger_config.level # << >> THEN logger_config.level
            ELSE IF global_log_level \in DOMAIN logger_config.levels
                 THEN << logger_config.levels[global_log_level] >>
                 ELSE << >>
    IN  IF /\ level_override # << >>
           /\ compare_log_levels(level_override[1], global_log_level) < 0
        THEN << >>
        ELSE level_override

\* The level passed to reset_stdlib_logger for a managed logger.
managed_level(logger_name, logger_config, env_config, global_log_level) ==
    LET level_override ==
            IF /\ logger_name \in DOMAIN env_config
               /\ env_config[logger_name].level # << >>
            THEN env_config[logger_name].level
            ELSE static_override(logger_config, global_log_level)
    IN  IF level_override # << >> THEN level_override[1] ELSE global_log_level

\* The handler passed to reset_stdlib_logger: a handler is named by the
\* stream or the file it writes to.
handler_for_logger(logger_name, environment_logger_config, default_handler) ==
    IF /\ logger_name \in DOMAIN environment_logger_config
       /\ environment_logger_config[logger_name].path # << >>
    THEN environment_logger_config[logger_name].path[1]
    ELSE default_handler

\* Mutant: the handler is added and propagate is left as it was.
reset_stdlib_logger_propagating(std_logger, handler) ==
    [std_logger EXCEPT !.handlers = @ \o <<handler>>]

\* reset_stdlib_logger, but for setLevel.
reset_stdlib_logger(std_logger, handler) ==
    [std_logger EXCEPT !.propagate = FALSE, !.handlers = <<handler>>]

\* The names logging.getLogger(name) makes PlaceHolders for when absent.
Ancestors(name) == {SubSeq(name, 1, k) : k \in 1..(Len(name) - 1)}

redirect_stdlib_loggers ==
    /\ calls["redirect_stdlib_loggers"] < MaxCalls
    /\ Called("redirect_stdlib_loggers")
    /\ LET global_log_level == get_environment_log_level_as_string(log_environ)
           default_handler ==
               IF <<"PYTHON", "LOG", "PATH">> \in DOMAIN log_environ
               THEN log_environ[<<"PYTHON", "LOG", "PATH">>]
               ELSE sys.stdout
           cleared == [n \in DOMAIN loggerDict |-> clear_handlers(loggerDict[n])]
           std == std_logging_configuration(PYTHONASYNCIODEBUG(log_environ))
           environment_logger_config == get_custom_logger_configs(log_environ)
           configured == DOMAIN std \cup DOMAIN environment_logger_config
           getLogger(n) ==
               IF n \in DOMAIN cleared /\ cleared[n].kind = "Logger"
               THEN cleared[n]
               ELSE [kind |-> "Logger", handlers |-> << >>, propagate |-> TRUE]
       IN  /\ root_handlers' = <<default_handler>>
           /\ loggerDict' =
                [n \in DOMAIN cleared \cup configured
                         \cup UNION {Ancestors(c) : c \in configured} |->
                    IF n \in configured
                    THEN reset_stdlib_logger(
                             getLogger(n),
                             handler_for_logger(n, environment_logger_config,
                                                default_handler))
                    ELSE IF n \in DOMAIN cleared THEN cleared[n]
                    ELSE PlaceHolder]
           /\ logger_levels' =
                [n \in DOMAIN logger_levels \cup configured |->
                    IF n = Root THEN global_log_level
                    ELSE IF n \in DOMAIN std
                    THEN managed_level(n, std[n], environment_logger_config,
                                       global_log_level)
                    ELSE IF n \in DOMAIN environment_logger_config
                    THEN IF environment_logger_config[n].level # << >>
                         THEN environment_logger_config[n].level[1]
                         ELSE global_log_level
                    ELSE logger_levels[n]]
           /\ log' = log \o UnexpectedTypes(loggerDict, DOMAIN loggerDict)
    /\ UNCHANGED <<proc_environ, subprocess_capture_configured, fds, subfs,
                   excepthook, hookcalls, setup_called, patched>>
    /\ UNCHANGED pluginVars
    /\ UNCHANGED <<requests, access_log, log_environ>>

\* The variables the process is started with or sets before it configures
\* logging, and the values tried.
EnvChoices ==
    ({<<"LOG", "LEVEL">>} \X {"DEBUG", "WARNING", "ERROR"})
    \cup ({<<"LOG", "LEVEL", "HTTPX">>, <<"LOG", "LEVEL", "STRIPE">>,
           <<"LOG", "LEVEL", "ASYNCIO">>, <<"LOG", "LEVEL", "MY", "LOGGER">>,
           <<"LOG", "LEVEL", "AZURE", "CORE", "PIPELINE", "POLICIES", "HTTP",
             "LOGGING", "POLICY">>} \X {"DEBUG", "ERROR"})
    \cup ({<<"LOG", "PATH", "HTTPX">>} \X {"/var/log/httpx.log"})
    \cup ({<<"PYTHON", "LOG", "PATH">>} \X {"/var/log/app.log"})

os_environ_set ==
    /\ Cardinality(DOMAIN log_environ \ {<<"PYTHONASYNCIODEBUG">>}) < MaxEnvVars
    /\ \E c \in EnvChoices :
          /\ c[1] \notin DOMAIN log_environ
          /\ log_environ' =
                [v \in DOMAIN log_environ \cup {c[1]} |->
                    IF v = c[1] THEN c[2] ELSE log_environ[v]]
    /\ UNCHANGED libVars
    /\ UNCHANGED pluginVars
    /\ UNCHANGED <<requests, access_log, root_handlers, logger_levels>>

\* Loggers that libraries made, some with handlers of their own, before
\* logging is configured.
LoggingTables ==
    {[n \in {} |-> PlaceHolder],
     [n \in {<<"uvicorn">>, <<"uvicorn", "error">>} |->
        [kind |-> "Logger", handlers |-> <<"handler">>,
         propagate |-> (n # <<"uvicorn">>)]],
     [n \in {Httpx, <<"my">>, <<"my", "logger">>} |->
        IF n = <<"my">> THEN PlaceHolder
        ELSE [kind |-> "Logger",
              handlers |-> IF n = Httpx THEN <<"handler">> ELSE << >>,
              propagate |-> (n = Httpx)]]}

InitLogging ==
    /\ PluginIdle
    /\ SubprocessIdle
    /\ HooksIdle
    /\ setup_called = FALSE
    /\ patched = Unpatched
    /\ log = << >>
    /\ calls = NoCalls
    /\ loggerDict \in LoggingTables
    /\ requests = << >>
    /\ access_log = << >>
    /\ root_handlers = << >>
    /\ logger_levels = DefaultLevels
    /\ log_environ \in {NoEnviron, [v \in {<<"PYTHONASYNCIODEBUG">>} |-> "1"]}

NextLogging ==
    \/ os_environ_set
    \/ redirect_stdlib_loggers

SpecLogging == InitLogging /\ [][NextLogging]_vars

\* ------------------------------------------------- access_log_middleware
MaxRequests == 2

\* scope["path"], cut where a suffix could start: endswith looks at the last
\* pieces only.
Paths ==
    { <<"/">>, <<"/static/style", ".css">>, <<"/app", ".js">>,
      <<"/app", ".js", ".map">>, <<"/app", ".map">>, <<"/logo", ".PNG">>,
      <<"/notes", ".css", ".bak">> }

EndsWith(path, suffix) ==
    /\ Len(path) >= Len(suffix)
    /\ SubSeq(path, Len(path) - Len(suffix) + 1, Len(path)) = suffix

\* Mutant: source maps are not looked for.
is_static_assets_request_without_map(path) ==
    \E suffix \in { <<".css">>, <<".js">>, <<".ico">>, <<".png">>, <<".jpg">>,
                     <<".jpeg">>, <<".gif">> } : EndsWith(path, suffix)

is_static_assets_request(path) ==
    \E suffix \in { <<".css">>, <<".js">>, <<".js", ".map">>, <<".ico">>,
                     <<".png">>, <<".jpg">>, <<".jpeg">>, <<".gif">> } :
        EndsWith(path, suffix)

\* An event of the logger "access_log" made while request i is handled.
AccessEvent(i, level, event) ==
    [request |-> i, level |-> level, event |-> event, status |-> << >>,
     path |-> << >>, client_ip |-> << >>]

\* client_ip_from_request: the address ipware finds in the proxy headers,
\* logged at debug level, or else the address of the peer.
client_ip_from_request(i, request) ==
    IF request.forwarded
    THEN [ip |-> "forwarded_for",
          events |-> << [AccessEvent(i, "debug",
                                     "extracted client IP from headers")
                            EXCEPT !.client_ip = <<"forwarded_for">>] >>]
    ELSE [ip |-> "client_host", events |-> << >>]

\* A request reaches the application.
receive_request ==
    /\ Len(requests) < MaxRequests
    /\ \E type \in {"http", "websocket"}, path \in Paths, forwarded \in BOOLEAN :
         requests' = Append(requests,
             [type |-> type, path |-> path, forwarded |-> forwarded,
              at |-> "received", response |-> << >>, returned |-> << >>])
    /\ UNCHANGED <<access_log, root_handlers, logger_levels, log_environ>>
    /\ UNCHANGED pluginVars
    /\ UNCHANGED libVars

\* access_log_middleware up to `await call_next(request)`.
access_log_middleware_call ==
    /\ \E i \in DOMAIN requests :
         /\ requests[i].at = "received"
         /\ requests' = [requests EXCEPT ![i].at = "awaiting"]
    /\ UNCHANGED <<access_log, root_handlers, logger_levels, log_environ>>
    /\ UNCHANGED pluginVars
    /\ UNCHANGED libVars

\* The rest of the application answers, or raises; an exception leaves the
\* middleware, which catches nothing.
call_next ==
    /\ \E i \in DOMAIN requests :
         /\ requests[i].at = "awaiting"
         /\ \/ \E status \in {200, 404} :
                  requests' = [requests EXCEPT
                      ![i].at = "produced",
                      ![i].response = << [status |-> status, of |-> i] >>]
            \/ requests' = [requests EXCEPT ![i].at = "raised"]
    /\ UNCHANGED <<access_log, root_handlers, logger_levels, log_environ>>
    /\ UNCHANGED pluginVars
    /\ UNCHANGED libVars

\* access_log_middleware from the point call_next returned: a request that
\* is not of type "http" gets the response as it is; for the others the
\* keyword arguments are evaluated first, then the event is logged.
access_log_middleware_return ==
    /\ \E i \in DOMAIN requests :
         LET request == requests[i]
             client == client_ip_from_request(i, request)
             level == IF is_static_assets_request(request.path)
                      THEN "debug" ELSE "info"
         IN  /\ request.at = "produced"
             /\ access_log' =
                   IF request.type # "http" THEN access_log
                   ELSE access_log \o client.events \o
                        << [AccessEvent(i, level, "request") EXCEPT
                               !.status = <<request.response[1].status>>,
                               !.path = request.path,
                               !.client_ip = <<client.ip>>] >>
             /\ requests' = [requests EXCEPT ![i].at = "returned",
                                             ![i].returned = request.response]
    /\ UNCHANGED <<root_handlers, logger_levels, log_environ>>
    /\ UNCHANGED pluginVars
    /\ UNCHANGED libVars

\* A FastAPI application with the middleware added, serving requests.
InitAccess ==
    /\ PluginIdle
    /\ LibIdle
    /\ AppIdle

NextAccess ==
    \/ receive_request
    \/ access_log_middleware_call
    \/ call_next
    \/ access_log_middleware_return

SpecAccess == InitAccess /\ [][NextAccess]_vars

TypeOK ==
    /\ pc \in {"configure", "loop", "phase", "body", "report", "finish",
               "done", "internal_error"}
    /\ cur \in 0..NumTests
    /\ emits \in 0..MaxEmits

\* ------------------------------------------------------------------ claims
Enabled == stash[CAPTURE_ENABLED_KEY]

\* pytest_runtest_protocol has finished for item cur.
ProtocolOver == cur >= 1 /\ pc \in {"loop", "done", "internal_error"}

\* Item cur went through its phases and the finally block of the protocol.
RanToEnd == ProtocolOver /\ outcomes # << >>

FailedPhase == \E i \in DOMAIN outcomes : outcomes[i].excinfo = "fail"
SkippedPhase == \E i \in DOMAIN outcomes : outcomes[i].excinfo = "skip"

\* What item cur wrote on a stream during its own phases, in phase order.
PhaseOutput(stream) ==
    wrote["setup"][stream] \o wrote["call"][stream] \o wrote["teardown"][stream]

HasFile(t, name) == fs[t].exists /\ name \in DOMAIN fs[t].files

Range(seq) == {seq[i] : i \in DOMAIN seq}

\* C1: with capture enabled, once the protocol of a test none of whose phases
\* raised a non-skip exception has finished, its artifact directory does not
\* exist, whatever it printed; after a run in which no test failed no
\* per-test directory exists.
C1_PassingTestLeavesNoDirectory ==
    /\ (Enabled /\ RanToEnd /\ ~FailedPhase) => ~fs[cur].exists
    /\ (Enabled /\ pc = "done" /\ failed = << >>) =>
          \A t \in Tests : ~fs[t].exists

C1_Witness ==
    /\ Enabled /\ pc = "done" /\ failed = << >>
    /\ PhaseOutput("stdout") # << >> /\ PhaseOutput("stderr") # << >>
    /\ ~fs[cur].exists

\* C2: with capture enabled, once the protocol of a test one of whose phases
\* raised a non-skip exception has finished, its artifact directory exists
\* and holds exception.txt; it holds stdout.txt exactly when the test wrote
\* something to stdout during its phases, and stderr.txt likewise.
C2_FailingTestFiles ==
    (Enabled /\ RanToEnd /\ FailedPhase) =>
        /\ fs[cur].exists
        /\ HasFile(cur, "exception.txt")
        /\ HasFile(cur, "stdout.txt") <=> PhaseOutput("stdout") # << >>
        /\ HasFile(cur, "stderr.txt") <=> PhaseOutput("stderr") # << >>

C2_Witness ==
    /\ Enabled /\ RanToEnd /\ FailedPhase
    /\ outcomes[Len(outcomes)].excinfo = "fail"
    /\ HasFile(cur, "exception.txt")
    /\ HasFile(cur, "stdout.txt") /\ ~HasFile(cur, "stderr.txt")

\* C3: pytest_runtest_makereport never puts a skip in the item's exception
\* list; a test whose only exceptions are skips leaves no artifact directory
\* and is not among the captured failures.
C3_SkipIsSuccess ==
    /\ \A i \in DOMAIN item.excinfo : item.excinfo[i][2] # "skip"
    /\ Len(item.excinfo) <= Len(outcomes)
    /\ (Enabled /\ RanToEnd /\ SkippedPhase /\ ~FailedPhase) =>
          /\ ~item.has_excinfo
          /\ ~fs[cur].exists
          /\ \A i \in DOMAIN stash.captured_tests :
                stash.captured_tests[i].nodeid # cur

C3_Witness ==
    /\ Enabled /\ RanToEnd /\ ~FailedPhase
    /\ \E i \in DOMAIN outcomes :
          outcomes[i].when = "call" /\ outcomes[i].excinfo = "skip"
    /\ PhaseOutput("stdout") # << >>
    /\ ~fs[cur].exists

\* C4: an artifact write or a directory removal that fails does not make
\* pytest_runtest_protocol raise: no OSError of the disk leaves the hook and
\* ends the session.
C4_BestEffortWrite == exc # "OSError"

\* C5: capture is enabled exactly when --no-structlog is absent, neither
\* --pdb nor --trace is active, an output directory is given and the capture
\* mode is "no"; while it is not enabled no stream is replaced, the
\* environment variable stays unset and no step changes the output directory.
CommandLineEnables(o) ==
    /\ ~o.no_structlog
    /\ ~o.usepdb /\ ~o.trace
    /\ o.structlog_output # NoneVal
    /\ o.capture = "no"

C5_DisabledTouchesNothing ==
    /\ sys = [stdout |-> OrigStdout, stderr |-> OrigStderr]
    /\ capture = NoCapture
    /\ environ = Unset
    /\ stash.captured_tests = << >>

C5_EnabledIff ==
    /\ [](pc # "configure" => (Enabled <=> CommandLineEnables(opt)))
    /\ [](~Enabled => C5_DisabledTouchesNothing)
    /\ [][~Enabled => fs' = fs]_vars

C5_Witness ==
    /\ pc = "done" /\ ~Enabled
    /\ opt.structlog_output # NoneVal /\ opt.capture # "no"
    /\ ~opt.no_structlog /\ ~opt.usepdb /\ ~opt.trace
    /\ failed # << >> /\ PhaseOutput("stdout") # << >>
    /\ fs[1] = StaleDir

\* C6 as stated: the stdout (stderr) file of a test is the concatenation, in
\* phase order, of what it wrote to sys.stdout (sys.stderr) during its phases.
FileOf == [stdout |-> "stdout.txt", stderr |-> "stderr.txt"]

C6_FileIsConcatenation ==
    (Enabled /\ RanToEnd) =>
        \A stream \in {"stdout", "stderr"} :
            HasFile(cur, FileOf[stream]) =>
                fs[cur].files[FileOf[stream]] = PhaseOutput(stream)

\* C6 amended: the file is that concatenation with the ANSI colour sequences
\* removed, and every character of it was written by this test in a phase.
C6_FileIsStrippedConcatenation ==
    (Enabled /\ RanToEnd) =>
        \A stream \in {"stdout", "stderr"} :
            HasFile(cur, FileOf[stream]) =>
                LET content == fs[cur].files[FileOf[stream]]
                IN  /\ content = StripAnsi(PhaseOutput(stream))
                    /\ \A i \in DOMAIN content :
                          content[i][2] = cur /\ content[i][3] \in PhaseSet

C6_Witness ==
    /\ Enabled /\ RanToEnd /\ cur > 1
    /\ HasFile(cur, "stdout.txt")
    /\ wrote["setup"]["stdout"] # << >> /\ wrote["teardown"]["stdout"] # << >>
    /\ fs[cur].files["stdout.txt"] # << >>
    /\ fs[cur].files["stdout.txt"] # PhaseOutput("stdout")

C8_EnvScopedToTest ==
    /\ (Enabled /\ pc \in {"phase", "body", "report", "finish"}) =>
          environ = <<cur>>
    /\ pc \in {"configure", "loop", "done", "internal_error"} => environ = Unset

C8_Witness ==
    /\ Enabled /\ RanToEnd /\ FailedPhase /\ cur > 1
    /\ environ = Unset

\* C9: at the end of the session the section 'structlog output captured' is
\* printed exactly when capture is enabled and a test recorded a non-skip
\* exception, and then it lists those tests, once each, in the order they ran.
SessionOver == pc \in {"done", "internal_error"}

C9_FailedSection ==
    SessionOver =>
        /\ reporter.section <=> (Enabled /\ failed # << >>)
        /\ reporter.section => reporter.entries = failed

\* C10: at the end of a session with capture enabled in which a test failed,
\* results.json lists one entry per failed test, and the directory each
\* entry's 'logs' names exists.
C10_ResultsJson ==
    (SessionOver /\ Enabled /\ failed # << >>) =>
        /\ results.exists
        /\ Len(results.entries) = Len(failed)
        /\ \A i \in DOMAIN results.entries :
              fs[results.entries[i].logs].exists

\* C11: once pytest_configure has run, the slow-test threshold is stored
\* exactly when --no-structlog is absent and --slow-test-threshold is
\* positive (and then it is the given value), whether or not capture is
\* enabled; when it is not stored, no '[slow]' line and no 'slow tests'
\* section is ever printed.
SlowActive == stash.slow_threshold # NoThreshold

C11_SlowIndependentOfCapture ==
    /\ pc # "configure" =>
          /\ SlowActive <=> (~opt.no_structlog /\ opt.slow_test_threshold > 0)
          /\ SlowActive => stash.slow_threshold = <<opt.slow_test_threshold>>
    /\ (opt.no_structlog \/ opt.slow_test_threshold <= 0) =>
          ~reporter.slow_section /\ reporter.slow = << >>

C11_Witness ==
    /\ pc = "done" /\ ~Enabled /\ SlowActive
    /\ opt.usepdb /\ opt.structlog_output = NoneVal /\ opt.capture # "no"
    /\ reporter.slow_section /\ reporter.slow # << >>

\* C12: when pytest_terminal_summary has run with a threshold stored, the
\* '[slow]' lines are exactly the passed call-phase reports that lasted at
\* least the threshold, one line each, from the longest to the shortest; a
\* test whose call phase did not pass has no line; the 'slow tests' section
\* is printed exactly when there is a line.
SlowNodeids == {reporter.slow[i].nodeid : i \in DOMAIN reporter.slow}

HasIntroducer(text) ==
    \E i \in DOMAIN text :
        i + 1 <= Len(text) /\ text[i][1] = ESC /\ text[i + 1][1] = "["

C13_NoEscapeIntroducer ==
    (Enabled /\ RanToEnd) =>
        \A name \in {"stdout.txt", "stderr.txt", "exception.txt"} :
            HasFile(cur, name) => ~HasIntroducer(fs[cur].files[name])

\* C14: a call of configure_subprocess_capture made with the guard flag set
\* changes no descriptor, opens no file and keeps the flag, whatever the
\* variable names by then; a call made with the flag unset and the variable
\* unset or empty redirects nothing, creates no file or directory and leaves
\* the flag unset; a call made with the flag unset and the variable naming a
\* directory makes the directory and the two files there, points the
\* descriptors 1 and 2 at them and sets the flag.
ConfigureStep ==
    calls'["configure_subprocess_capture"] # calls["configure_subprocess_capture"]

C14_ConfigureOnce ==
    [][ConfigureStep =>
        /\ subprocess_capture_configured =>
              UNCHANGED <<fds, subfs, subprocess_capture_configured>>
        /\ (~subprocess_capture_configured /\ EnvMissing(proc_environ)) =>
              UNCHANGED <<fds, subfs, subprocess_capture_configured>>
        /\ (~subprocess_capture_configured /\ ~EnvMissing(proc_environ)) =>
              /\ subprocess_capture_configured'
              /\ fds' = [stdout |-> <<proc_environ[1], "subprocess-pid-stdout.txt">>,
                         stderr |-> <<proc_environ[1], "subprocess-pid-stderr.txt">>]
              /\ proc_environ[1] \in subfs'.dirs
              /\ {fds'.stdout, fds'.stderr} \subseteq subfs'.files
    ]_vars

C14_Witness ==
    /\ calls["configure_subprocess_capture"] >= 2
    /\ subprocess_capture_configured
    /\ proc_environ = <<"d2">>
    /\ fds.stdout = <<"d1", "subprocess-pid-stdout.txt">>
    /\ fds.stderr = <<"d1", "subprocess-pid-stderr.txt">>
    /\ "d2" \notin subfs.dirs
    /\ \E i \in DOMAIN log : log[i].event = "subprocess capture env not set"

\* C15: install_exception_hook leaves structlog_excepthook in sys.excepthook
\* and structlog_threading_excepthook in threading.excepthook.  A call of
\* either with an exception that is not a KeyboardInterrupt logs exactly one
\* event 'uncaught_exception' at error level with the exception info (and,
\* for the threading hook, the thread's name, id, native_id and is_daemon)
\* and does not call sys.__excepthook__; a call with KeyboardInterrupt or a
\* subclass calls sys.__excepthook__ exactly once and logs nothing.
LastCall == hookcalls'[Len(hookcalls')]
RaiseStep == Len(hookcalls') > Len(hookcalls) /\ LastCall.kind = "raise"
InstallStep == Len(hookcalls') > Len(hookcalls) /\ LastCall.kind = "install"
Count(seq, x) == Cardinality({i \in DOMAIN seq : seq[i] = x})
Interrupts == {t \in ExcTypes : "KeyboardInterrupt" \in Mro[t]}

C15_HookLogsOnce ==
    /\ [][(InstallStep /\ LastCall.what = "install_exception_hook") =>
            /\ excepthook'.sys[1] = "structlog_excepthook"
            /\ excepthook'.threading[1] = "structlog_threading_excepthook"]_vars
    /\ [][(RaiseStep /\ LastCall.hooks[LastCall.slot][1] \in
                {"structlog_excepthook", "structlog_threading_excepthook"}) =>
            IF LastCall.what \in Interrupts
            THEN Count(LastCall.ran, SysDefault) = 1 /\ log' = log
            ELSE /\ Count(LastCall.ran, SysDefault) = 0
                 /\ Len(log') = Len(log) + 1
                 /\ SubSeq(log', 1, Len(log)) = log
                 /\ log'[Len(log')].event = "uncaught_exception"
                 /\ log'[Len(log')].level = "error"
                 /\ log'[Len(log')].exc_info = <<LastCall.what>>
                 /\ LastCall.slot = "sys" => log'[Len(log')].thread = << >>
                 /\ LastCall.slot = "threading" =>
                       /\ Len(log'[Len(log')].thread) = 1
                       /\ DOMAIN log'[Len(log')].thread[1] =
                             {"name", "id", "native_id", "is_daemon"}]_vars

C15_Witness ==
    /\ \E i \in DOMAIN hookcalls :
          /\ hookcalls[i].kind = "raise" /\ hookcalls[i].slot = "threading"
          /\ hookcalls[i].what = "ValueError"
          /\ hookcalls[i].ran = << <<"structlog_threading_excepthook", 1>> >>
    /\ \E i \in DOMAIN hookcalls :
          /\ hookcalls[i].kind = "raise" /\ hookcalls[i].slot = "sys"
          /\ hookcalls[i].what = "Interrupted"
          /\ hookcalls[i].ran = << <<"structlog_excepthook", 1>>, SysDefault >>
    /\ Len(log) = 1 /\ log[1].event = "uncaught_exception"
    /\ log[1].thread = <<ThreadInfo>>

\* C16: an installation logs one record of the package logger for every
\* slot it sets that held a hook other than the interpreter's default, and
\* no other record; no uncaught exception raised after an installation runs
\* a hook that installation replaced.
SlotsSet ==
    [install_exception_hook |-> {"sys", "threading"},
     setup_exception_hook |-> {"sys"}]

Replaced(i) ==
    {hookcalls[i].hooks[slot] : slot \in SlotsSet[hookcalls[i].what]}
        \ {SysDefault, ThreadingDefault}

Installs(i, slot) ==
    hookcalls[i].kind = "install" /\ slot \in SlotsSet[hookcalls[i].what]

LibraryHooks ==
    {"structlog_excepthook", "structlog_threading_excepthook",
     "log_uncaught_exception"}

ClearStep ==
    calls'["clear_existing_logger_handlers"] # calls["clear_existing_logger_handlers"]

SetupStep == calls'["setup_trace"] # calls["setup_trace"]

C19_SetupTraceIdempotent ==
    /\ [](calls["setup_trace"] > 0 => setup_called)
    /\ [][setup_called => setup_called']_vars
    /\ [][(SetupStep /\ calls["setup_trace"] > 0) =>
            (patched' = patched /\ log' = log)]_vars

C19_Witness ==
    /\ calls["setup_trace"] >= 2
    /\ setup_called
    /\ patched.NAME_TO_LEVEL = <<TRACE_LOG_LEVEL>>
    /\ patched.Logger_trace = Foreign /\ patched.logging_trace = Ours
    /\ Cardinality({i \in DOMAIN log : log[i].logger = "root"}) = 1

\* C20: a call of setup_trace that does its work while NAME_TO_LEVEL already
\* has the key 'trace', or LEVEL_TO_FILTERING_LOGGER already has the TRACE
\* level, logs a warning that the table is already patched.
AlreadyPatchedEvents ==
    {"NAME_TO_LEVEL already contains 'trace' key",
     "LEVEL_TO_FILTERING_LOGGER already contains TRACE level"}

C20_WarnsWhenAlreadyPatched ==
    [][(/\ SetupStep
        /\ ~setup_called
        /\ (patched.NAME_TO_LEVEL # << >>
              \/ patched.LEVEL_TO_FILTERING_LOGGER # << >>)) =>
            \E i \in DOMAIN log' :
                i > Len(log) /\ log'[i].event \in AlreadyPatchedEvents]_vars

\* C21: no call of setup_trace changes a trace attribute that is already
\* there (Logger.trace, logging.trace, the trace of an output logger class);
\* the call that does the patching logs a warning for Logger.trace and one
\* for logging.trace exactly when the attribute was there, and installs its
\* own attribute exactly where none was.
TraceWarned(what) ==
    \E i \in DOMAIN log' :
        /\ i > Len(log)
        /\ log'[i].level = "warning"
        /\ log'[i].event = what

OutputLoggerClasses == DOMAIN Unpatched.output_loggers

EventsOf(i) == {k \in DOMAIN access_log : access_log[k].request = i}

C22_OneEventPerRequest ==
    \A i \in DOMAIN requests :
        (requests[i].type = "http" /\ requests[i].at = "returned") =>
            Cardinality(EventsOf(i)) = 1

\* C22 amended: the access logger has exactly one 'request' event for an
\* http request the middleware returned from and none before the response
\* was produced; it is at debug level when the path ends with a static-asset
\* suffix and at info level otherwise; when the client address came from a
\* proxy header, one debug event 'extracted client IP from headers' comes
\* right before it, and there is no other event; the response is returned
\* as call_next produced it; a request of another type leaves no event.
RequestEventsOf(i) == {k \in EventsOf(i) : access_log[k].event = "request"}

StaticPaths ==
    { <<"/static/style", ".css">>, <<"/app", ".js">>, <<"/app", ".js", ".map">> }

C22_OneAccessLine ==
    \A i \in DOMAIN requests :
        /\ requests[i].at = "returned" =>
              /\ requests[i].returned = requests[i].response
              /\ requests[i].response # << >>
        /\ (requests[i].type # "http" \/ requests[i].at # "returned") =>
              EventsOf(i) = {}
        /\ (requests[i].type = "http" /\ requests[i].at = "returned") =>
              /\ Cardinality(RequestEventsOf(i)) = 1
              /\ \A k \in RequestEventsOf(i) :
                    /\ access_log[k].level =
                          IF requests[i].path \in StaticPaths
                          THEN "debug" ELSE "info"
                    /\ access_log[k].status = <<requests[i].response[1].status>>
                    /\ EventsOf(i) =
                          IF requests[i].forwarded THEN {k - 1, k} ELSE {k}
              /\ \A k \in EventsOf(i) \ RequestEventsOf(i) :
                    /\ access_log[k].level = "debug"
                    /\ access_log[k].event = "extracted client IP from headers"

C22_Witness ==
    /\ Len(requests) = 2
    /\ requests[1].type = "http" /\ requests[1].at = "returned"
    /\ requests[1].path = <<"/app", ".js", ".map">> /\ requests[1].forwarded
    /\ requests[2].type = "http" /\ requests[2].at = "returned"
    /\ requests[2].path = <<"/notes", ".css", ".bak">> /\ ~requests[2].forwarded
    /\ Len(access_log) = 3
    /\ access_log[1].request = 2 /\ access_log[1].level = "info"
    /\ access_log[2].request = 1 /\ access_log[3].request = 1
    /\ access_log[3].level = "debug" /\ access_log[3].event = "request"

\* C23: a SimpleCapture is active exactly while a phase of an enabled run
\* executes; it is started when the phase is entered, never while another
\* one is active, and stopped when that same phase ends, whether it passed,
\* skipped or raised; between phases and between tests the streams are the
\* real ones; everything in the buffers of the active capture was written
\* by the running test in the running phase.
FromRunningPhase(text) ==
    \A i \in DOMAIN text : text[i][2] = cur /\ text[i][3] = when

Buffers == {CapStdout, CapStderr}

C27_StartStopRoundTrip ==
    /\ []((Enabled /\ ~capture.active) =>
            /\ sys = [stdout |-> OrigStdout, stderr |-> OrigStderr]
            /\ \A i \in DOMAIN root_handlers : root_handlers[i] \notin Buffers)
    /\ [][(capture'.active /\ ~capture.active) =>
            /\ capture'.orig_stdout = sys.stdout
            /\ capture'.orig_stderr = sys.stderr
            /\ DOMAIN root_handlers' = DOMAIN root_handlers
            /\ \A i \in DOMAIN root_handlers :
                  root_handlers'[i] =
                      IF root_handlers[i] = sys.stdout THEN CapStdout
                      ELSE IF root_handlers[i] = sys.stderr THEN CapStderr
                      ELSE root_handlers[i]]_vars
    /\ [][(capture.active /\ ~capture'.active) =>
            /\ sys'.stdout = capture.orig_stdout
            /\ sys'.stderr = capture.orig_stderr
            /\ DOMAIN root_handlers' = DOMAIN root_handlers
            /\ \A i \in DOMAIN root_handlers :
                  root_handlers'[i] =
                      IF root_handlers[i] = CapStdout THEN capture.orig_stdout
                      ELSE IF root_handlers[i] = CapStderr THEN capture.orig_stderr
                      ELSE root_handlers[i]]_vars

C27_Witness ==
    /\ Enabled /\ pc = "report" /\ cur = 2 /\ when = "teardown"
    /\ call.excinfo = "fail"
    /\ root_handlers = <<OrigStderr, TestStream>>
    /\ sys = [stdout |-> OrigStdout, stderr |-> OrigStderr]
    /\ ~capture.active

\* C24: once the protocol of a test with capture enabled has finished and
\* phases of it failed, exception.txt holds the long representation of the
\* exception of every failed phase, in phase order, joined by a blank line;
\* and the test is registered among the captured failures with the file,
\* line and summary of the first of these exceptions and with the duration
\* of its call phase, or None when the call phase did not run.
FailedPhases == SelectSeq(outcomes, LAMBDA o : o.excinfo = "fail")

CallDuration ==
    IF \E i \in DOMAIN outcomes : outcomes[i].when = "call"
    THEN <<(CHOOSE o \in Range(outcomes) : o.when = "call").duration>>
    ELSE << >>

C24_AllExceptionsFirstRegistered ==
    (Enabled /\ RanToEnd /\ FailedPhase) =>
        /\ HasFile(cur, "exception.txt")
        /\ fs[cur].files["exception.txt"] =
              JoinParts(cur, [i \in DOMAIN FailedPhases |->
                                <<FailedPhases[i].when, "fail">>])
        /\ \E i \in DOMAIN stash.captured_tests :
              /\ stash.captured_tests[i].nodeid = cur
              /\ stash.captured_tests[i].file = <<"tb", cur>>
              /\ stash.captured_tests[i].line = FailedPhases[1].when
              /\ stash.captured_tests[i].exception_summary =
                    <<FailedPhases[1].when, "fail">>
              /\ stash.captured_tests[i].duration = CallDuration

\* C25: in a run with capture enabled over directories left by an earlier
\* run, the step that starts a test's protocol empties that test's
\* directory, files and subdirectories, before any phase runs; nothing an
\* earlier run wrote is in the directory afterwards; the directory of a test
\* that has not started is as the earlier run left it, and no step changes
\* the directory of a test other than the running one.
StaleText(text) == \E i \in DOMAIN text : text[i][3] = "stale"

C25_StaleFilesRemoved ==
    /\ []((Enabled /\ pc = "phase" /\ outcomes = << >>) => fs[cur] = EmptyDir)
    /\ [](Enabled =>
            /\ \A t \in Tests : t > cur => fs[t] = StaleDir
            /\ \A t \in Tests : t <= cur =>
                  \A n \in DOMAIN fs[t].files : ~StaleText(fs[t].files[n]))
    /\ [][\A t \in Tests : t # cur' => fs'[t] = fs[t]]_vars

C25_Witness ==
    /\ Enabled /\ cur = 1 /\ RanToEnd /\ FailedPhase
    /\ DOMAIN fs[1].files = {"exception.txt", "stderr.txt"}
    /\ fs[2] = StaleDir

\* C28: once the protocol of a test with capture enabled has finished, the
\* test's directory does not exist or holds at least one file, whether the
\* test passed, failed or was skipped.
C28_NoEmptyDirectory ==
    (Enabled /\ ProtocolOver) =>
        \A t \in Tests :
            t <= cur => (~fs[t].exists \/ DOMAIN fs[t].files # {})

C28_Witness ==
    /\ Enabled /\ ProtocolOver /\ cur = 2
    /\ ~fs[1].exists
    /\ FailedPhase /\ PhaseOutput("stdout") = << >> /\ PhaseOutput("stderr") = << >>
    /\ fs[2].exists /\ "exception.txt" \in DOMAIN fs[2].files

\* C30: results.json changes only in pytest_terminal_summary, and only when
\* capture is enabled and a failure was registered; while no failure is
\* registered the results.json of the earlier run is in the output
\* directory unchanged, also at the end of a run in which every test passed
\* or was skipped.
C30_ResultsJsonOnlyOnFailure ==
    /\ [][results' # results =>
            /\ pc = "loop" /\ pc' = "done"
            /\ Enabled /\ stash.captured_tests # << >>]_vars
    /\ [](stash.captured_tests = << >> => results = StaleResults)

C30_Witness ==
    /\ Enabled /\ pc = "done" /\ failed = << >>
    /\ stash.captured_tests = << >>
    /\ SkippedPhase /\ PhaseOutput("stdout") # << >>
    /\ results = StaleResults
    /\ \A t \in Tests : ~fs[t].exists

\* C26 (as stated): the level redirect_stdlib_loggers sets on a managed
\* logger is the value of its LOG_LEVEL_<NAME> variable when that is set,
\* otherwise the static override when it is not below the global level,
\* otherwise the global level.
LevelVariable(n) ==
    CASE n = Httpx -> <<"LOG", "LEVEL", "HTTPX">>
      [] n = Stripe -> <<"LOG", "LEVEL", "STRIPE">>
      [] n = Asyncio -> <<"LOG", "LEVEL", "ASYNCIO">>
      [] n = AzureHttpLoggingPolicy ->
            <<"LOG", "LEVEL", "AZURE", "CORE", "PIPELINE", "POLICIES", "HTTP",
              "LOGGING", "POLICY">>

StatedLevel(n, env) ==
    LET global == get_environment_log_level_as_string(env)
        static == IF n = Asyncio \/ global = "INFO" THEN "WARNING" ELSE global
    IN  IF LevelVariable(n) \in DOMAIN env THEN env[LevelVariable(n)]
        ELSE IF LevelNo[static] >= LevelNo[global] THEN static ELSE global

Redirected == calls'["redirect_stdlib_loggers"] # calls["redirect_stdlib_loggers"]

C26_ManagedLoggerLevel ==
    [][Redirected =>
         \A n \in DOMAIN std_logging_configuration(PYTHONASYNCIODEBUG(log_environ)) :
             logger_levels'[n] = StatedLevel(n, log_environ)]_vars

\* C29: when redirect_stdlib_loggers has run, no named logger both holds a
\* handler and propagates; every managed or environment-configured logger
\* holds exactly one handler and does not propagate, whatever handlers it
\* held before, and every other logger holds none; so a record logged on any
\* logger, in the table or a child of one, reaches at most one handler.
RECURSIVE callHandlers(_, _, _)
callHandlers(name, table, root) ==
    IF name = Root THEN root
    ELSE LET parent == SubSeq(name, 1, Len(name) - 1)
         IN  IF name \in DOMAIN table /\ table[name].kind = "Logger"
             THEN table[name].handlers \o
                    (IF table[name].propagate
                     THEN callHandlers(parent, table, root) ELSE << >>)
             ELSE callHandlers(parent, table, root)

ConfiguredLoggers ==
    DOMAIN std_logging_configuration(PYTHONASYNCIODEBUG(log_environ))
        \cup DOMAIN get_custom_logger_configs(log_environ)

C29_NoHandlerAndPropagate ==
    [][Redirected =>
         /\ \A n \in DOMAIN loggerDict' :
               /\ ~(loggerDict'[n].handlers # << >> /\ loggerDict'[n].propagate)
               /\ n \in ConfiguredLoggers =>
                     /\ loggerDict'[n].kind = "Logger"
                     /\ Len(loggerDict'[n].handlers) = 1
                     /\ ~loggerDict'[n].propagate
               /\ n \notin ConfiguredLoggers => loggerDict'[n].handlers = << >>
         /\ ConfiguredLoggers \subseteq DOMAIN loggerDict'
         /\ \A n \in DOMAIN loggerDict' \cup {Root} :
               /\ Len(callHandlers(n, loggerDict', root_handlers')) <= 1
               /\ Len(callHandlers(n \o <<"child">>, loggerDict', root_handlers')) <= 1]_vars

C29_Witness ==
    /\ calls["redirect_stdlib_loggers"] >= 1
    /\ {Httpx, <<"my">>, <<"my", "logger">>} \subseteq DOMAIN loggerDict
    /\ loggerDict[Httpx] =
          [kind |-> "Logger", handlers |-> <<"/var/log/httpx.log">>,
           propagate |-> FALSE]
    /\ loggerDict[<<"my", "logger">>] =
          [kind |-> "Logger", handlers |-> <<"orig_stdout">>,
           propagate |-> FALSE]
    /\ loggerDict[<<"my">>] = PlaceHolder
    /\ root_handlers = <<"orig_stdout">>

====
